---- MODULE Spec2Model ----
(***************************************************************************)
(* dev-proxy (src/src/main.rs): a hyper service that forwards a request    *)
(* to the first ProxyRoute whose route is a prefix of the request path,    *)
(* and otherwise serves the file at root.join(path) from the file system.  *)
(*                                                                         *)
(* Strings are sequences of tokens.  A token is one byte of a path ("/",   *)
(* "a", "?"), except "..", "http://" and "*", which stand for themselves.  *)
(* An Option<T> is a sequence of length at most one: <<>> is None and      *)
(* <<x>> is Some(x).                                                       *)
(***************************************************************************)
EXTENDS Naturals, Sequences, FiniteSets, TLC

\* Longest request path, in tokens.
MaxPathLen == 4
\* Most routes registered with proxy() before serving.
MaxRoutes == 2
\* http::Uri refuses a string longer than its MAX_LEN (65534 bytes); the
\* limit is scaled to the token strings of this model.
UriMaxLen == 5

----------------------------------------------------------------------------
(* Strings *)

RECURSIVE SeqsUpTo(_, _)
SeqsUpTo(S, n) ==
    IF n = 0 THEN {<<>>}
    ELSE LET shorter == SeqsUpTo(S, n - 1)
         IN  shorter \cup {Append(s, x) : s \in {t \in shorter : Len(t) = n - 1}, x \in S}

\* str::starts_with
StartsWith(s, p) ==
    /\ Len(p) <= Len(s)
    /\ SubSeq(s, 1, Len(p)) = p

\* str::strip_prefix: Some(rest) or None
StripPrefix(s, p) ==
    IF StartsWith(s, p) THEN <<SubSeq(s, Len(p) + 1, Len(s))>> ELSE <<>>

\* The index of the first token of s that is in D, Len(s) + 1 when there is none.
RECURSIVE FirstIn(_, _, _)
FirstIn(s, D, i) ==
    IF i > Len(s) THEN Len(s) + 1
    ELSE IF s[i] \in D THEN i
    ELSE FirstIn(s, D, i + 1)

----------------------------------------------------------------------------
(* http::Uri, as hyper hands it to the service and as ProxyRoute holds it *)

NoUri == [scheme |-> FALSE, authority |-> <<>>, path |-> <<>>, query |-> <<>>]

\* PathAndQuery: the path runs to the first "?", the query is what follows it.
PathAndQuery(t) ==
    LET q == FirstIn(t, {"?"}, 1)
    IN  [path  |-> SubSeq(t, 1, q - 1),
         query |-> IF q <= Len(t) THEN <<SubSeq(t, q + 1, Len(t))>> ELSE <<>>]

\* str::parse::<Uri>(): [ok, uri].  Empty and over-long strings are refused;
\* "/..." is a path-only URI; "*" is the asterisk form; "http://" is followed
\* by a non-empty authority and then the path and query; anything else must
\* be an authority and nothing more.
ParseUri(s) ==
    IF s = <<>> \/ Len(s) > UriMaxLen THEN [ok |-> FALSE, uri |-> NoUri]
    ELSE IF s[1] = "/" THEN
        [ok |-> TRUE,
         uri |-> [scheme |-> FALSE, authority |-> <<>>,
                  path |-> PathAndQuery(s).path, query |-> PathAndQuery(s).query]]
    ELSE IF s = <<"*">> THEN
        [ok |-> TRUE,
         uri |-> [scheme |-> FALSE, authority |-> <<>>, path |-> s, query |-> <<>>]]
    ELSE IF s[1] = "http://" THEN
        LET rest == Tail(s)
            e    == FirstIn(rest, {"/", "?"}, 1)
            pq   == PathAndQuery(SubSeq(rest, e, Len(rest)))
        IN  IF e = 1 THEN [ok |-> FALSE, uri |-> NoUri]
            ELSE [ok |-> TRUE,
                  uri |-> [scheme |-> TRUE, authority |-> SubSeq(rest, 1, e - 1),
                           path |-> pq.path, query |-> pq.query]]
    ELSE IF FirstIn(s, {"/", "?", "*", "http://"}, 1) <= Len(s) THEN
        [ok |-> FALSE, uri |-> NoUri]
    ELSE [ok |-> TRUE,
          uri |-> [scheme |-> FALSE, authority |-> s, path |-> <<>>, query |-> <<>>]]

\* Uri::path(): "/" for an empty path of a URI that has a scheme or a query.
UriPath(u) ==
    IF u.path = <<>> /\ (u.scheme \/ u.query # <<>>) THEN <<"/">> ELSE u.path

\* Uri::to_string()
UriToString(u) ==
    (IF u.scheme THEN <<"http://">> ELSE <<>>)
        \o u.authority
        \o UriPath(u)
        \o (IF u.query # <<>> THEN <<"?">> \o u.query[1] ELSE <<>>)

----------------------------------------------------------------------------
(* The file system under std::fs::File *)

\* A path names a node by the names on the way from "/" to it.
Absent == [type |-> "absent", readable |-> FALSE, bytes |-> <<>>]
Dir == [type |-> "dir", readable |-> TRUE, bytes |-> <<>>]
File(b) == [type |-> "file", readable |-> TRUE, bytes |-> b]
Unreadable(b) == [type |-> "file", readable |-> FALSE, bytes |-> b]

\* The bytes of the files: 65 is ASCII, 255 occurs in no UTF-8 text.
Contents == {<<>>, <<65>>, <<255>>, <<65, 255>>}
Secret == <<83>>

\* current_dir(), the document root, and the nodes around it.
Root == <<"/", "r">>
RootNode == <<<<"r">>>>
InRoot == <<<<"r">>, <<"a">>>>
Nested == <<<<"r">>, <<"a">>, <<"a">>>>
Outside == <<<<"a">>>>

FsBase == (<<>> :> Dir) @@ (RootNode :> Dir) @@ (Outside :> File(Secret))

\* The file systems the program is started in: /a is a file outside the
\* root, /r/a is absent, unreadable, a file, or a directory (empty or
\* holding the file /r/a/a).
FileSystems ==
    {FsBase @@ (InRoot :> k) : k \in {Absent, Dir, Unreadable(<<65>>)} \cup {File(b) : b \in Contents}}
        \cup {FsBase @@ (InRoot :> Dir) @@ (Nested :> File(<<65>>))}

NodeAt(f, node) == IF node \in DOMAIN f THEN f[node] ELSE Absent

\* PathBuf::join: an absolute path replaces the base; otherwise a separator
\* is added unless the base ends with one.
PathJoin(base, rel) ==
    IF rel # <<>> /\ rel[1] = "/" THEN rel
    ELSE IF base # <<>> /\ base[Len(base)] # "/" THEN base \o <<"/">> \o rel
    ELSE base \o rel

\* The names of a path: the runs of tokens between separators.
RECURSIVE Names(_)
Names(p) ==
    IF p = <<>> THEN <<>>
    ELSE IF p[1] = "/" THEN Names(Tail(p))
    ELSE LET e == FirstIn(p, {"/"}, 1)
         IN  <<SubSeq(p, 1, e - 1)>> \o Names(SubSeq(p, e, Len(p)))

\* Path resolution from "/": every node walked through is a directory, ".."
\* steps to the parent ("/" is its own parent).
RECURSIVE Walk(_, _, _)
Walk(f, cur, names) ==
    IF names = <<>> THEN [err |-> "", node |-> cur]
    ELSE IF NodeAt(f, cur).type = "absent" THEN [err |-> "NotFound", node |-> cur]
    ELSE IF NodeAt(f, cur).type = "file" THEN [err |-> "NotADirectory", node |-> cur]
    ELSE IF Head(names) = <<"..">>
         THEN Walk(f, IF cur = <<>> THEN cur ELSE SubSeq(cur, 1, Len(cur) - 1), Tail(names))
         ELSE Walk(f, Append(cur, Head(names)), Tail(names))

\* File::open(path), read-only: [err, node], err the io::ErrorKind or "".
FileOpen(f, p) ==
    LET w == Walk(f, <<>>, Names(p))
        k == NodeAt(f, w.node)
    IN  IF w.err # "" THEN w
        ELSE IF k.type = "absent" THEN [err |-> "NotFound", node |-> w.node]
        ELSE IF k.type = "file" /\ p[Len(p)] = "/" THEN [err |-> "NotADirectory", node |-> w.node]
        ELSE IF ~k.readable THEN [err |-> "PermissionDenied", node |-> w.node]
        ELSE [err |-> "", node |-> w.node]

\* str::from_utf8 accepts the bytes
ValidUtf8(b) == \A i \in 1..Len(b) : b[i] < 128

\* Read::read_to_string on an open file: [err, contents]
ReadToString(f, node) ==
    IF NodeAt(f, node).type = "dir" THEN [err |-> "IsADirectory", contents |-> <<>>]
    ELSE IF ~ValidUtf8(NodeAt(f, node).bytes) THEN [err |-> "InvalidData", contents |-> <<>>]
    ELSE [err |-> "", contents |-> NodeAt(f, node).bytes]

----------------------------------------------------------------------------
(* Requests, responses and errors *)

Header == <<"x-id", "1">>

NoRequest == [method |-> "", uri |-> NoUri, headers |-> {}, body |-> <<>>]

\* The request targets a client can send: a path, with or without a query,
\* or "*".  hyper parses the target with ParseUri and refuses the request
\* when that fails.
Targets ==
    LET paths == {p \in SeqsUpTo({"/", "a", ".."}, MaxPathLen) : p # <<>> /\ p[1] = "/"}
    IN  paths \cup {p \o <<"?", "q">> : p \in paths} \cup {<<"*">>}

\* Request<Body> as the service receives it: a GET without a body or a POST
\* with one, with or without a header.
Requests ==
    {[method |-> m, uri |-> ParseUri(t).uri, headers |-> h,
      body |-> IF m = "POST" THEN <<1>> ELSE <<>>] :
        m \in {"GET", "POST"}, t \in {x \in Targets : ParseUri(x).ok}, h \in {{}, {Header}}}

\* Result<Response<Body>, E>: Ok(response), or Err of a hyper::Error
\* (variant "Hyper") or of a ProxyError (variants "Http" and "Proxy").
Ok(status, headers, body) ==
    [ok |-> TRUE, status |-> status, headers |-> headers, body |-> body,
     variant |-> "", cause |-> ""]
Err(variant, cause) ==
    [ok |-> FALSE, status |-> 0, headers |-> {}, body |-> <<>>,
     variant |-> variant, cause |-> cause]

\* impl From<io::Error> for ProxyError
FromIoError(kind) == Err("Proxy", kind)

\* impl From<hyper::Error> for ProxyError
FromHyperError(e) == Err("Http", e.cause)

\* What a backend exchange ends with: a response, or a transport error.
BackendOutcomes ==
    {Ok(200, {<<"content-type", "t">>}, <<66>>), Ok(404, {}, <<>>), Err("Hyper", "Connect"),
     Err("Hyper", "IncompleteMessage")}

----------------------------------------------------------------------------
(* ProxyRoute *)

\* ProxyRoute::new
ProxyRoute(route, proxy) == [route |-> route, proxy |-> proxy]

\* The routes of the configuration: "/a" to a target with a path (the shape
\* main() registers), "/aa" to a target of scheme and host only, and "/a/"
\* to a target of a host only.
Routes ==
    {ProxyRoute(<<"/", "a">>, ParseUri(<<"http://", "h", "/", "b">>).uri),
     ProxyRoute(<<"/", "a", "a">>, ParseUri(<<"http://", "h">>).uri),
     ProxyRoute(<<"/", "a", "/">>, ParseUri(<<"h">>).uri)}

\* A match that ends at a segment boundary: the path is the prefix, or goes
\* on with "/" after it.
MatchesSegment(r, path) ==
    /\ StartsWith(path, r.route)
    /\ \/ Len(path) = Len(r.route)
       \/ r.route[Len(r.route)] = "/"
       \/ path[Len(r.route) + 1] = "/"

\* ProxyRoute::matches
Matches(r, path) == StartsWith(path, r.route)

\* Client::request: the ResponseFuture is ready at once with an error when
\* the URI has no scheme or no authority, and pends on the backend otherwise.
ClientRequest(out) ==
    IF out.uri.scheme /\ out.uri.authority # <<>> THEN <<>>
    ELSE <<Err("Hyper", "AbsoluteUriRequired")>>

\* A rewriting that appends the path and the query of the inbound URI.
ProxyRouteRequestKeepsQuery(r, request) ==
    LET target == UriPath(request.uri)
                      \o (IF request.uri.query = <<>> THEN <<>>
                          ELSE <<"?">> \o request.uri.query[1])
        suffix == StripPrefix(target, r.route)
        parsed == IF suffix = <<>> THEN [ok |-> FALSE, uri |-> NoUri]
                  ELSE ParseUri(UriToString(r.proxy) \o suffix[1])
    IN  [panic |-> ~parsed.ok,
         out |-> [method |-> request.method, uri |-> parsed.uri, headers |-> {},
                  body |-> request.body]]

\* ProxyRoute::request: [panic, out].  Both unwraps panic: strip_prefix on a
\* path the route is no prefix of, parse on a string that is no URI.
ProxyRouteRequest(r, request) ==
    LET suffix == StripPrefix(UriPath(request.uri), r.route)
        parsed == IF suffix = <<>> THEN [ok |-> FALSE, uri |-> NoUri]
                  ELSE ParseUri(UriToString(r.proxy) \o suffix[1])
    IN  [panic |-> ~parsed.ok,
         out |-> [method |-> request.method, uri |-> parsed.uri, headers |-> {},
                  body |-> request.body]]

----------------------------------------------------------------------------
(* StaticFileFuture *)

\* A poll that has no arm for NotFound.
StaticFilePollNoArm(f, path) ==
    LET opened == FileOpen(f, path)
        read   == ReadToString(f, opened.node)
    IN  IF opened.err = "" THEN
            IF read.err = "" THEN Ok(200, {}, read.contents) ELSE FromIoError(read.err)
        ELSE FromIoError(opened.err)

\* StaticFileFuture::poll
StaticFilePoll(f, path) ==
    LET opened == FileOpen(f, path)
        read   == ReadToString(f, opened.node)
    IN  IF opened.err = "" THEN
            IF read.err = "" THEN Ok(200, {}, read.contents) ELSE FromIoError(read.err)
        ELSE IF opened.err = "NotFound" THEN Ok(404, {}, <<>>)
        ELSE FromIoError(opened.err)

\* ProxyResponseFuture::poll, were it to answer with a response of its own
\* making that keeps only the backend's body
ProxyResponsePollRewraps(inner) ==
    IF inner.ok THEN Ok(200, {}, inner.body) ELSE FromHyperError(inner)

\* ProxyResponseFuture::poll on a ready inner future
ProxyResponsePoll(inner) == IF inner.ok THEN inner ELSE FromHyperError(inner)

----------------------------------------------------------------------------
(* DevProxService *)

\* DevProxService::new
NewService(root) == [root |-> root, proxies |-> <<>>]

\* self.proxies.iter().find(|p| p.matches(path)): the index found, 0 for None
RECURSIVE FindFrom(_, _, _)
FindFrom(proxies, path, i) ==
    IF i > Len(proxies) THEN 0
    ELSE IF Matches(proxies[i], path) THEN i
    ELSE FindFrom(proxies, path, i + 1)

\* A find that keeps the last route that matches.
RECURSIVE FindLastFrom(_, _, _)
FindLastFrom(proxies, path, i) ==
    IF i = 0 THEN 0
    ELSE IF Matches(proxies[i], path) THEN i
    ELSE FindLastFrom(proxies, path, i - 1)

FindLast(proxies, path) == FindLastFrom(proxies, path, Len(proxies))

Find(proxies, path) == FindFrom(proxies, path, 1)

\* DevProxService::poll_ready
PollReady(svc) == TRUE

\* What a dispatch's future owns: the files it holds open and the backend
\* requests it has in flight.
NoneHeld == [files |-> {}, requests |-> 0]

\* A future that keeps the file it opened as a field of its own.
HeldAfterPollKeeps(f, path) ==
    IF FileOpen(f, path).err = "" THEN {FileOpen(f, path).node} ELSE {}

\* The files StaticFileFuture still holds open when poll returns: `file` is
\* a local of the Ok arm and is dropped at its end.
HeldAfterPoll(f, path) == {}

\* Dropping a future drops what it owns: the ResponseFuture inside
\* ProxyResponseFuture, the PathBuf inside StaticFileFuture.
Dropped(h) == NoneHeld

Idle ==
    [state |-> "idle", req |-> NoRequest, route |-> 0, upstream |-> <<>>,
     path |-> <<>>, result |-> <<>>]

\* A connection and the dispatch of its current request: the connection's
\* state and clone of the service, the dispatch, the requests it handed to
\* Client::request, the paths it handed to File::open, and what it owns.
NoSession ==
    [conn |-> [status |-> "none", svc |-> NewService(<<>>)], disp |-> Idle,
     sent |-> <<>>, opened |-> <<>>, held |-> NoneHeld]

\* A connection served by a service built anew, without the routes.
AcceptOfFresh(svc) ==
    [NoSession EXCEPT !.conn = [status |-> "open", svc |-> NewService(svc.root)]]

\* make_service_fn's closure: a connection gets a clone of the service
AcceptOf(svc) == [NoSession EXCEPT !.conn = [status |-> "open", svc |-> svc]]

\* DevProxService::call.  A panic unwinds the connection's task.
CallOf(s, request) ==
    LET path == UriPath(request.uri)
        i    == Find(s.conn.svc.proxies, path)
        fwd  == ProxyRouteRequest(s.conn.svc.proxies[i], request)
        rel  == StripPrefix(path, <<"/">>)
        panicked == [s EXCEPT !.conn.status = "aborted",
                              !.disp = [Idle EXCEPT !.state = "panicked", !.req = request,
                                                    !.route = i],
                              !.sent = <<>>, !.opened = <<>>, !.held = NoneHeld]
    IN  IF i # 0 THEN
            IF fwd.panic THEN panicked
            ELSE [s EXCEPT !.disp = [Idle EXCEPT !.state = "proxy", !.req = request, !.route = i,
                                                 !.upstream = ClientRequest(fwd.out)],
                           !.sent = <<fwd.out>>, !.opened = <<>>,
                           !.held = [files |-> {},
                                     requests |-> IF ClientRequest(fwd.out) = <<>> THEN 1 ELSE 0]]
        ELSE IF rel = <<>> THEN panicked
        ELSE [s EXCEPT !.disp = [Idle EXCEPT !.state = "static", !.req = request,
                                             !.path = PathJoin(s.conn.svc.root, rel[1])],
                       !.sent = <<>>, !.opened = <<>>, !.held = NoneHeld]

\* A panic that takes the tasks of the other connections down with it.
BystanderAborted(s, panic) ==
    IF panic /\ s.conn.status = "open" THEN [s EXCEPT !.conn.status = "aborted"] ELSE s

\* A panic in the task of one connection leaves the task of another alone.
Bystander(s, panic) == s

\* The backend answers the forwarded request, or the transport fails.
BackendOf(s, outcome) == [s EXCEPT !.disp.upstream = <<outcome>>]

\* ProxyResponseFuture::poll: Pending while the inner future is
PollProxyOf(s) ==
    IF s.disp.upstream = <<>> THEN s
    ELSE [s EXCEPT !.disp.state = "ready",
                   !.disp.result = <<ProxyResponsePoll(s.disp.upstream[1])>>,
                   !.held = NoneHeld]

\* A poll that opens the file, returns Pending, and reads on the next poll.
PollStaticOfAwaits(s, f) ==
    IF s.opened = <<>> THEN [s EXCEPT !.opened = <<s.disp.path>>]
    ELSE [s EXCEPT !.disp.state = "ready",
                   !.disp.result = <<StaticFilePoll(f, s.disp.path)>>]

\* StaticFileFuture::poll: always Ready
PollStaticOf(s, f) ==
    [s EXCEPT !.disp.state = "ready",
              !.disp.result = <<StaticFilePoll(f, s.disp.path)>>,
              !.opened = <<s.disp.path>>,
              !.held = [files |-> HeldAfterPoll(f, s.disp.path), requests |-> 0]]

\* hyper takes the future's output and drops the future: it writes a
\* response and keeps the connection, or closes the connection on an error.
DeliverOf(s) ==
    [s EXCEPT !.conn.status = IF s.disp.result[1].ok THEN "open" ELSE "closed",
              !.disp = Idle, !.sent = <<>>, !.opened = <<>>, !.held = Dropped(s.held)]

\* The peer closes the connection before the dispatch has completed: hyper
\* drops the future.
CancelOf(s) ==
    [s EXCEPT !.conn.status = "gone", !.disp = Idle, !.sent = <<>>, !.opened = <<>>,
              !.held = Dropped(s.held)]

VARIABLES
    service,    \* main's DevProxService
    serving,    \* the server is bound and serves
    fs,         \* the file system
    conn,       \* the connection being served: its state and its clone of the service
    disp,       \* the dispatch of the connection's current request
    sent,       \* the requests the dispatch handed to Client::request
    opened,     \* the paths the dispatch handed to File::open
    held,       \* what the dispatch's future owns
    peer        \* a second connection, served at the same time

vars == <<service, serving, fs, conn, disp, sent, opened, held, peer>>

\* The first connection as a session, and its next state.
Session == [conn |-> conn, disp |-> disp, sent |-> sent, opened |-> opened, held |-> held]

Becomes(s) ==
    /\ conn' = s.conn
    /\ disp' = s.disp
    /\ sent' = s.sent
    /\ opened' = s.opened
    /\ held' = s.held

Init ==
    /\ service = NewService(Root)
    /\ serving = FALSE
    /\ fs \in FileSystems
    /\ conn = NoSession.conn
    /\ disp = NoSession.disp
    /\ sent = NoSession.sent
    /\ opened = NoSession.opened
    /\ held = NoSession.held
    /\ peer = NoSession

\* DevProxService::proxy, called by main before it serves, once for a route
Proxy(r) ==
    /\ ~serving
    /\ Len(service.proxies) < MaxRoutes
    /\ \A i \in 1..Len(service.proxies) : service.proxies[i] # r
    /\ service' = [service EXCEPT !.proxies = Append(@, r)]
    /\ UNCHANGED <<serving, fs, conn, disp, sent, opened, held, peer>>

\* hyper::Server::bind(..).serve(..)
Serve ==
    /\ ~serving
    /\ serving' = TRUE
    /\ UNCHANGED <<service, fs, conn, disp, sent, opened, held, peer>>

Accept ==
    /\ serving
    /\ conn.status # "open"
    /\ Becomes(AcceptOf(service))
    /\ UNCHANGED <<service, serving, fs, peer>>

Call(request) ==
    /\ conn.status = "open"
    /\ disp.state = "idle"
    /\ PollReady(conn.svc)
    /\ Becomes(CallOf(Session, request))
    /\ peer' = Bystander(peer, CallOf(Session, request).disp.state = "panicked")
    /\ UNCHANGED <<service, serving, fs>>

Backend(outcome) ==
    /\ disp.state = "proxy"
    /\ disp.upstream = <<>>
    /\ Becomes(BackendOf(Session, outcome))
    /\ UNCHANGED <<service, serving, fs, peer>>

PollProxy ==
    /\ disp.state = "proxy"
    /\ Becomes(PollProxyOf(Session))
    /\ UNCHANGED <<service, serving, fs, peer>>

PollStatic ==
    /\ disp.state = "static"
    /\ Becomes(PollStaticOf(Session, fs))
    /\ UNCHANGED <<service, serving, fs, peer>>

Deliver ==
    /\ disp.state = "ready"
    /\ Becomes(DeliverOf(Session))
    /\ UNCHANGED <<service, serving, fs, peer>>

Cancel ==
    /\ conn.status = "open"
    /\ disp.state \in {"proxy", "static", "ready"}
    /\ Becomes(CancelOf(Session))
    /\ UNCHANGED <<service, serving, fs, peer>>

Next ==
    \/ \E r \in Routes : Proxy(r)
    \/ Serve
    \/ Accept
    \/ \E request \in Requests : Call(request)
    \/ \E outcome \in BackendOutcomes : Backend(outcome)
    \/ PollProxy
    \/ PollStatic
    \/ Deliver
    \/ Cancel

Spec == Init /\ [][Next]_vars

----------------------------------------------------------------------------
(* Two connections served at the same time *)

\* The requests of the two connections: a path one route is a prefix of, a
\* path whose rewriting under another is no URI, a path with "..", and "*".
ConcTargets ==
    {<<"/", "a">>, <<"/", "a", "/", "/">>, <<"/", "..", "/", "a">>, <<"*">>}

ConcRequests ==
    {[method |-> "GET", uri |-> ParseUri(t).uri, headers |-> {}, body |-> <<>>] :
        t \in ConcTargets}

\* main has registered one route and serves.
InitConc ==
    /\ \E r \in Routes : service = [root |-> Root, proxies |-> <<r>>]
    /\ serving = TRUE
    /\ fs \in FileSystems
    /\ conn = NoSession.conn
    /\ disp = NoSession.disp
    /\ sent = NoSession.sent
    /\ opened = NoSession.opened
    /\ held = NoSession.held
    /\ peer = NoSession

PeerAccept ==
    /\ serving
    /\ peer.conn.status # "open"
    /\ peer' = AcceptOf(service)
    /\ UNCHANGED <<service, serving, fs, conn, disp, sent, opened, held>>

PeerCall(request) ==
    /\ peer.conn.status = "open"
    /\ peer.disp.state = "idle"
    /\ PollReady(peer.conn.svc)
    /\ peer' = CallOf(peer, request)
    /\ Becomes(Bystander(Session, CallOf(peer, request).disp.state = "panicked"))
    /\ UNCHANGED <<service, serving, fs>>

PeerBackend(outcome) ==
    /\ peer.disp.state = "proxy"
    /\ peer.disp.upstream = <<>>
    /\ peer' = BackendOf(peer, outcome)
    /\ UNCHANGED <<service, serving, fs, conn, disp, sent, opened, held>>

PeerPollProxy ==
    /\ peer.disp.state = "proxy"
    /\ peer' = PollProxyOf(peer)
    /\ UNCHANGED <<service, serving, fs, conn, disp, sent, opened, held>>

PeerPollStatic ==
    /\ peer.disp.state = "static"
    /\ peer' = PollStaticOf(peer, fs)
    /\ UNCHANGED <<service, serving, fs, conn, disp, sent, opened, held>>

PeerDeliver ==
    /\ peer.disp.state = "ready"
    /\ peer' = DeliverOf(peer)
    /\ UNCHANGED <<service, serving, fs, conn, disp, sent, opened, held>>

PeerCancel ==
    /\ peer.conn.status = "open"
    /\ peer.disp.state \in {"proxy", "static", "ready"}
    /\ peer' = CancelOf(peer)
    /\ UNCHANGED <<service, serving, fs, conn, disp, sent, opened, held>>

NextConc ==
    \/ Accept
    \/ \E request \in ConcRequests : Call(request)
    \/ \E outcome \in BackendOutcomes : Backend(outcome)
    \/ PollProxy
    \/ PollStatic
    \/ Deliver
    \/ Cancel
    \/ PeerAccept
    \/ \E request \in ConcRequests : PeerCall(request)
    \/ \E outcome \in BackendOutcomes : PeerBackend(outcome)
    \/ PeerPollProxy
    \/ PeerPollStatic
    \/ PeerDeliver
    \/ PeerCancel

SpecConc == InitConc /\ [][NextConc]_vars

----------------------------------------------------------------------------
(* What the claims speak of *)

\* The path of the request being dispatched, and the routes of the
\* connection's service whose prefix is a prefix of it.
ReqPath == UriPath(disp.req.uri)
Matching == {i \in 1..Len(conn.svc.proxies) : Matches(conn.svc.proxies[i], ReqPath)}
Earliest == CHOOSE i \in Matching : \A j \in Matching : i <= j

\* The dispatch has been called, and went to a route or to the file system.
Called == disp.state # "idle"
OnProxyPath == Called /\ Matching # {}
OnStaticPath == Called /\ Matching = {}
Ready == disp.state = "ready"

\* R.target + suffix(p) for route i, as a string.
Rewritten(i) ==
    UriToString(conn.svc.proxies[i].proxy)
        \o SubSeq(ReqPath, Len(conn.svc.proxies[i].route) + 1, Len(ReqPath))

\* C2: when the prefixes of several routes are prefixes of the request path,
\* the request is forwarded through the earliest of them in the table: the
\* dispatch takes that route, and the request handed to the client goes to
\* that route's target followed by the rest of the path.
C2_FirstMatch ==
    OnProxyPath =>
        /\ disp.route = Earliest
        /\ disp.state \in {"proxy", "ready"} =>
              /\ Len(sent) = 1
              /\ UriToString(sent[1].uri) = Rewritten(Earliest)

\* C2's case: two routes with different targets match, and the request has
\* gone to the first one's target and not the second's.
C2_Witness ==
    /\ disp.state = "proxy"
    /\ Matching = {1, 2}
    /\ Rewritten(1) # Rewritten(2)
    /\ UriToString(sent[1].uri) = Rewritten(1)

\* C1: a request whose path starts with a route's prefix is forwarded exactly
\* once, to R.target + suffix(p) for the route R that lookup takes (C2), with
\* the method and the body of the inbound request.
C1_ForwardedOnce ==
    OnProxyPath =>
        /\ Len(sent) = 1
        /\ UriToString(sent[1].uri) = Rewritten(Earliest)
        /\ sent[1].method = disp.req.method
        /\ sent[1].body = disp.req.body

\* C3: handling a request never fails outward: the call does not panic, and
\* the output of the future it returns is a Response, never an error value.
C3_NeverFailsOutward ==
    /\ disp.state # "panicked"
    /\ Ready => disp.result[1].ok

\* The names of a path with every ".." applied to the names before it.
RECURSIVE Lexical(_, _)
Lexical(acc, names) ==
    IF names = <<>> THEN acc
    ELSE IF Head(names) = <<"..">>
         THEN Lexical(IF acc = <<>> THEN acc ELSE SubSeq(acc, 1, Len(acc) - 1), Tail(names))
         ELSE Lexical(Append(acc, Head(names)), Tail(names))

\* The request path has a ".." segment and the location it is resolved to
\* is not under the document root.
Traversal ==
    /\ \E i \in 1..Len(Names(ReqPath)) : Names(ReqPath)[i] = <<"..">>
    /\ ~StartsWith(Lexical(<<>>, Names(disp.path)), Names(conn.svc.root))

\* C4: a request that matches no route and whose path has a ".." segment
\* resolving outside the document root is answered 403 or 400, never 200
\* with the content of a file outside the root.
C4_NoTraversal ==
    (OnStaticPath /\ Ready /\ Traversal) =>
        /\ disp.result[1].ok
        /\ disp.result[1].status \in {400, 403}

\* C5: when the transport to the backend fails for a forwarded request, the
\* response for the request is 502 Bad Gateway.
C5_TransportErrorIs502 ==
    (OnProxyPath /\ Ready /\ disp.upstream[1].cause \in {"Connect", "IncompleteMessage"}) =>
        /\ disp.result[1].ok
        /\ disp.result[1].status = 502

\* C6: when the matched target followed by the path suffix is no valid URI,
\* that request is answered 502 and nothing else fails: the call does not
\* panic and the connection's handler keeps running.
C6_InvalidUriIs502 ==
    (OnProxyPath /\ ~ParseUri(Rewritten(Earliest)).ok) =>
        /\ disp.state # "panicked"
        /\ conn.status = "open"
        /\ Ready => (disp.result[1].ok /\ disp.result[1].status = 502)

\* A readable regular file is at the location the static path resolves to.
FileExists ==
    /\ FileOpen(fs, disp.path).err = ""
    /\ NodeAt(fs, FileOpen(fs, disp.path).node).type = "file"

\* C7: a request that matches no route, with a file at the document root
\* joined with the path, is answered 200 with the file's exact bytes, valid
\* UTF-8 or not.
C7_ServesExactBytes ==
    (OnStaticPath /\ Ready /\ FileExists) =>
        disp.result[1] = Ok(200, {}, NodeAt(fs, FileOpen(fs, disp.path).node).bytes)

\* Nothing is at the location the static path names.
NoFileThere == NodeAt(fs, Lexical(<<>>, Names(disp.path))).type = "absent"

IoFailure ==
    LET open == FileOpen(fs, disp.path)
    IN  IF open.err = "" THEN ReadToString(fs, open.node).err \in {"IsADirectory"}
        ELSE open.err # "NotFound"

\* C9: on the static path, an I/O failure other than file-not-found
\* (permission denied, a directory, a failed read) is answered 500, and the
\* body does not carry the error's text.
C9_IoFailureIs500 ==
    (OnStaticPath /\ Ready /\ IoFailure) =>
        /\ disp.result[1].ok
        /\ disp.result[1].status = 500
        /\ disp.result[1].body = <<>>

\* C10: every header of the inbound request is in the request forwarded to
\* the backend.
C10_HeadersForwarded ==
    \A i \in 1..Len(sent) : disp.req.headers \subseteq sent[i].headers

\* C11: on the proxy path the response of the backend is the response of the
\* dispatch, with the same status, headers and body, and the dispatch has no
\* result while the backend's response is pending.
C11_RelaysUnchanged ==
    /\ (OnProxyPath /\ disp.upstream = <<>>) => (~Ready /\ disp.result = <<>>)
    /\ (OnProxyPath /\ Ready /\ disp.upstream[1].ok) => disp.result[1] = disp.upstream[1]

\* C11's case: the backend answered with headers and a body and the dispatch
\* is ready with that response.
C11_Witness ==
    /\ OnProxyPath
    /\ Ready
    /\ disp.upstream[1].ok
    /\ disp.upstream[1].headers # {}
    /\ disp.upstream[1].body # <<>>
    /\ disp.result = disp.upstream

\* The dispatch has ended: its future is ready, or its call panicked.
Ended == disp.state \in {"ready", "panicked"}

\* C12: a dispatch performs exactly one outbound action: it forwards to a
\* backend exactly when the prefix of some route is a prefix of the path, it
\* reads a file exactly when none is, and it never does both or neither.
C12_ExactlyOneAction ==
    Ended =>
        /\ (Len(sent) = 1) <=> (Matching # {})
        /\ (Len(opened) = 1) <=> (Matching = {})
        /\ Len(sent) + Len(opened) = 1

\* Where the dispatch of session s would be had its request been dispatched
\* alone on a connection of its own, with the same answer of the backend and
\* the same file system: called, answered if s has its answer, polled if s
\* is ready.
AloneAt(s) ==
    LET called   == CallOf(AcceptOf(service), s.disp.req)
        answered == IF s.disp.upstream # <<>> /\ called.disp.upstream = <<>>
                    THEN BackendOf(called, s.disp.upstream[1]) ELSE called
    IN  CASE s.disp.state = "ready" /\ called.disp.state = "proxy" -> PollProxyOf(answered)
          [] s.disp.state = "ready" /\ called.disp.state = "static" -> PollStaticOf(called, fs)
          [] OTHER -> answered

HasFuture == disp.state \in {"proxy", "static"}

\* C14: every dispatch completes with exactly one result, the backend
\* answering or failing in the end and the polls being scheduled fairly: a
\* dispatch that is called and has no result yet has a future that the
\* polls bring to one, and a ready dispatch has one result.
C14_Completes ==
    /\ (Called /\ ~Ready) => HasFuture
    /\ Ready => Len(disp.result) = 1

LiteralPrefix(p, s) == Len(p) <= Len(s) /\ \A k \in 1..Len(p) : s[k] = p[k]

\* The routes whose prefix begins the request path literally.
Prefixed ==
    {i \in 1..Len(conn.svc.proxies) : LiteralPrefix(conn.svc.proxies[i].route, ReqPath)}

\* C16: route lookup is a literal prefix test that knows no segment
\* boundary: the lookup finds no route exactly when no prefix begins the
\* path, a found route's prefix begins the path, and what follows the prefix
\* (an "x" after "/api" too) is appended to the target as it stands.
C16_LiteralPrefix ==
    Called =>
        /\ (disp.route = 0) <=> (Prefixed = {})
        /\ disp.route # 0 => disp.route \in Prefixed
        /\ (disp.route # 0 /\ disp.state \in {"proxy", "ready"}) =>
               UriToString(sent[1].uri) = Rewritten(disp.route)

\* C16's case: "/aa" matched the route "/a" and went to target + "a".
C16_Witness ==
    /\ disp.state = "proxy"
    /\ ReqPath = <<"/", "a", "a">>
    /\ conn.svc.proxies[disp.route].route = <<"/", "a">>
    /\ UriToString(sent[1].uri) = <<"http://", "h", "/", "b", "a">>

\* C17: static resolution is single-shot: a static dispatch is either not
\* polled yet, with no file opened and no result, or ready with its final
\* outcome after the one open; it is never found polled and pending.
C17_SingleShot ==
    (Called /\ disp.route = 0 /\ disp.state # "panicked") =>
        \/ disp.state = "static" /\ opened = <<>> /\ disp.result = <<>>
        \/ disp.state = "ready" /\ opened = <<disp.path>> /\ Len(disp.result) = 1

\* C17's case: the first poll of a static dispatch opened the file and gave
\* the response.
C17_Witness ==
    /\ disp.state = "ready"
    /\ disp.route = 0
    /\ opened = <<disp.path>>
    /\ disp.result[1].ok
    /\ disp.result[1].status = 200

\* C18: once serving has started the route table and the document root are
\* fixed: no step (no poll_ready, no call, no poll) changes the configured
\* service, and the service of every connection has its routes, in its
\* order, and its root.
C18_ConfigurationFixed ==
    [][serving =>
          /\ service' = service
          /\ conn'.status # "none" => conn'.svc = service]_vars

\* C18's case: a dispatch has run on a connection whose service still has
\* the two routes and the root that main configured.
C18_Witness ==
    /\ serving
    /\ Len(service.proxies) = 2
    /\ Ready
    /\ conn.svc = service

\* The location a path names, every ".." applied, is the document root or
\* below it.
InsideRoot(p) == StartsWith(Lexical(<<>>, Names(p)), Names(conn.svc.root))

\* C19: the document root is the boundary of static resolution: every path
\* a dispatch opens lies inside it, whatever the request path, ".." segments
\* and several leading "/" included.
C19_OpensInsideRoot ==
    \A i \in 1..Len(opened) : InsideRoot(opened[i])

\* C20: the outbound URI is built from the route's target and the path
\* component alone: for a forwarded request that came with a query string,
\* the outbound URI is the target followed by the path without the prefix,
\* and has no query.
C20_QueryDropped ==
    (disp.route # 0 /\ disp.state \in {"proxy", "ready"} /\ disp.req.uri.query # <<>>) =>
        /\ UriToString(sent[1].uri) = Rewritten(disp.route)
        /\ sent[1].uri.query = <<>>
        /\ \A k \in 1..Len(UriToString(sent[1].uri)) : UriToString(sent[1].uri)[k] # "?"

\* C20's case: a request with the query "q" was forwarded without it.
C20_Witness ==
    /\ disp.state = "proxy"
    /\ disp.req.uri.query = <<<<"q">>>>
    /\ Len(sent) = 1
    /\ sent[1].uri.query = <<>>
    /\ UriToString(sent[1].uri) = Rewritten(disp.route)

====
